---- MODULE Spec2Model ----
(***************************************************************************)
(* Car-inventory manager (AIforimpact22/daner): the flat-file application  *)
(* (app.py: load_csv / save_csv / coerce_for_save / validate_rows and the  *)
(* Add New and Edit Data handlers) and the relational pages (pages/2_Add,  *)
(* pages/3_Edit, pages/5_upload) over the SQLite Store table, the Record   *)
(* Sale page (pages/2_Sale), the Browse pages (app.py, pages/1_Browse) and  *)
(* the Compare page (pages/4_Compare).                                     *)
(*                                                                         *)
(* A vehicle row is modelled by the six columns the validation rules read: *)
(* StockNo, Make, Model, Year, Price, VIN.  The thirteen other columns are *)
(* optional text/number columns that every function below treats exactly   *)
(* like Make (text) or Year (number).                                      *)
(***************************************************************************)
EXTENDS Integers, Sequences, FiniteSets, TLC

VARIABLES
    csv,        \* flat file data.csv: the sequence of rows on disk
    cache,      \* st.cache_data entry of load_csv(DATA_PATH): <<>> or <<df>>
    store,      \* SQLite table Store: the sequence of rows in rowid order
    stockCache, \* st.cache_data entry of load_existing_stocknos: <<>> or <<set>>
    editCache,  \* st.cache_data entry of pages/3_Edit load_df: <<>> or <<df>>
    msgs,       \* what the last script run showed (st.error / st.success)
    last,       \* the last operation: its name, its input and the state before it
    batch,      \* validate_rows / coerce_for_save: the DataFrame under test
    errs,       \* validate_rows: the returned list
    pc,         \* position of the function-level harness
    sale,       \* table sale: the recorded sales in insertion order
    unsoldCache,\* st.cache_data entry of load_unsold_cars: <<>> or <<inventory>>
    view        \* Browse: the widget values and what the last run computed

vars == <<csv, cache, store, stockCache, editCache, msgs, last, batch, errs, pc,
          sale, unsoldCache, view>>

----------------------------------------------------------------------------
(* Values *)

\* pd.NA / NaN in a text column (the "missing marker").
NA == "pd.NA"
\* NaN in a numeric column (pd.to_numeric(..., errors="coerce") of a blank or
\* malformed cell).
NaN == -1
\* A cell of a numeric column holding text that is not a number ("abc").
NotNum == -2

YearMin == 1900
YearMax == 2100
VinLen == 17

\* str(x) / .astype(str) of a text cell: the missing marker prints as "<NA>".
Str(x) == IF x = NA THEN "<NA>" ELSE x

\* str.strip(): leading and trailing blanks removed.
RECURSIVE LStrip(_)
LStrip(s) ==
    IF Len(s) > 0 /\ SubSeq(s, 1, 1) = " " THEN LStrip(SubSeq(s, 2, Len(s))) ELSE s

RECURSIVE RStrip(_)
RStrip(s) ==
    IF Len(s) > 0 /\ SubSeq(s, Len(s), Len(s)) = " "
    THEN RStrip(SubSeq(s, 1, Len(s) - 1)) ELSE s

Strip(s) == RStrip(LStrip(s))

\* str.lower()
LowerChar(c) ==
    CASE c = "A" -> "a" [] c = "B" -> "b" [] c = "C" -> "c" [] c = "D" -> "d"
      [] c = "E" -> "e" [] c = "F" -> "f" [] c = "G" -> "g" [] c = "H" -> "h"
      [] c = "I" -> "i" [] c = "J" -> "j" [] c = "K" -> "k" [] c = "L" -> "l"
      [] c = "M" -> "m" [] c = "N" -> "n" [] c = "O" -> "o" [] c = "P" -> "p"
      [] c = "Q" -> "q" [] c = "R" -> "r" [] c = "S" -> "s" [] c = "T" -> "t"
      [] c = "U" -> "u" [] c = "V" -> "v" [] c = "W" -> "w" [] c = "X" -> "x"
      [] c = "Y" -> "y" [] c = "Z" -> "z" [] OTHER -> c

RECURSIVE Lower(_)
Lower(s) ==
    IF Len(s) = 0 THEN s
    ELSE LowerChar(SubSeq(s, 1, 1)) \o Lower(SubSeq(s, 2, Len(s)))

\* Python's `needle in hay` on strings.
Contains(hay, needle) ==
    \E i \in 0..(Len(hay) - Len(needle)) : SubSeq(hay, i + 1, i + Len(needle)) = needle

\* Series.astype("string").str.strip(): missing stays missing.
StripCell(x) == IF x = NA THEN NA ELSE Strip(x)

\* pd.to_numeric(col, errors="coerce") on one cell.
ToNumeric(x) == IF x = NotNum THEN NaN ELSE x

\* pd.isna on a numeric cell.
IsNaN(x) == x = NaN

Row(s, mk, md, y, p, v) ==
    [StockNo |-> s, Make |-> mk, Model |-> md, Year |-> y, Price |-> p, VIN |-> v]

----------------------------------------------------------------------------
(* app.py: coerce_for_save *)

CoerceRow(r) ==
    [StockNo |-> LET s == StripCell(r.StockNo) IN IF s = "" THEN NA ELSE s,
     Make    |-> LET s == StripCell(r.Make)    IN IF s = "" THEN NA ELSE s,
     Model   |-> LET s == StripCell(r.Model)   IN IF s = "" THEN NA ELSE s,
     Year    |-> ToNumeric(r.Year),
     Price   |-> ToNumeric(r.Price),
     VIN     |-> LET s == StripCell(r.VIN)     IN IF s = "" THEN NA ELSE s]

coerce_for_save(df) == [i \in 1..Len(df) |-> CoerceRow(df[i])]

----------------------------------------------------------------------------
(* app.py: validate_rows *)

Msg(row, code) == [row |-> row, code |-> code, dups |-> {}]

\* `if not str(row.get(col, "")).strip()`
BlankText(x) == Strip(Str(x)) = ""

YearMsgs(i, y) ==
    IF IsNaN(y) THEN <<Msg(i, "Year is required")>>
    ELSE IF y = NotNum THEN <<Msg(i, "Year must be a number")>>
    ELSE IF y < YearMin \/ y > YearMax
         THEN <<Msg(i, "Year must be between 1900 and 2100")>>
         ELSE <<>>

PriceMsgs(i, p) ==
    IF IsNaN(p) THEN <<Msg(i, "Price is required")>>
    ELSE IF p = NotNum THEN <<Msg(i, "Price must be numeric")>>
    ELSE IF p <= 0 THEN <<Msg(i, "Price must be > 0")>>
         ELSE <<>>

VinMsgs(i, v) ==
    LET vin == Strip(Str(v))
    IN IF vin # "" /\ Len(vin) # VinLen
       THEN <<Msg(i, "VIN should be 17 characters")>>
       ELSE <<>>

RowMsgs(i, r) ==
    (IF BlankText(r.StockNo) THEN <<Msg(i, "StockNo is required")>> ELSE <<>>)
    \o (IF BlankText(r.Make) THEN <<Msg(i, "Make is required")>> ELSE <<>>)
    \o (IF BlankText(r.Model) THEN <<Msg(i, "Model is required")>> ELSE <<>>)
    \o YearMsgs(i, r.Year)
    \o PriceMsgs(i, r.Price)
    \o VinMsgs(i, r.VIN)

RECURSIVE AllRowMsgs(_, _)
AllRowMsgs(df, i) ==
    IF i > Len(df) THEN <<>> ELSE RowMsgs(i, df[i]) \o AllRowMsgs(df, i + 1)

\* A duplicate check that folds case before comparing.
DupKeysIgnoreCase(df) ==
    {Str(df[i].StockNo) : i \in {j \in 1..Len(df) :
        \E k \in 1..Len(df) :
            k # j /\ Lower(Str(df[k].StockNo)) = Lower(Str(df[j].StockNo))}}

\* df["StockNo"].astype(str)[...duplicated(keep=False)], as set(dups)
DupKeys(df) ==
    {Str(df[i].StockNo) : i \in {j \in 1..Len(df) :
        \E k \in 1..Len(df) : k # j /\ Str(df[k].StockNo) = Str(df[j].StockNo)}}

DupMsgs(df) ==
    IF DupKeys(df) # {}
    THEN <<[row |-> 0, code |-> "Duplicate StockNo values found", dups |-> DupKeys(df)]>>
    ELSE <<>>

validate_rows(df) == AllRowMsgs(df, 1) \o DupMsgs(df)

----------------------------------------------------------------------------
(* app.py: save_csv and load_csv.  A file row holds the cells as written:   *)
(* a text cell is its characters (empty for a missing value), a numeric     *)
(* cell is the number, or NaN for an empty cell.                            *)

\* DataFrame.to_csv: a missing text value is written as an empty cell.
WriteText(x) == IF x = NA THEN "" ELSE x

SaveRow(r) ==
    [StockNo |-> WriteText(r.StockNo),
     Make    |-> WriteText(r.Make),
     Model   |-> WriteText(r.Model),
     Year    |-> ToNumeric(r.Year),
     Price   |-> ToNumeric(r.Price),
     VIN     |-> WriteText(r.VIN)]

save_csv(df) == [i \in 1..Len(df) |-> SaveRow(df[i])]

\* pd.read_csv's default na_values: cells read as missing.
NaStrings ==
    {"", "#N/A", "#N/A N/A", "#NA", "-1.#IND", "-1.#QNAN", "-NaN", "-nan",
     "1.#IND", "1.#QNAN", "<NA>", "N/A", "NA", "NULL", "NaN", "None", "n/a",
     "nan", "null"}

Digits == {"0", "1", "2", "3", "4", "5", "6", "7", "8", "9"}

\* A cell pd.read_csv parses as an integer.
IsDigits(s) ==
    Len(s) > 0 /\ \A i \in 1..Len(s) : SubSeq(s, i, i) \in Digits

\* str(int(s)): leading zeros are gone.
RECURSIVE IntCanon(_)
IntCanon(s) ==
    IF Len(s) > 1 /\ SubSeq(s, 1, 1) = "0" THEN IntCanon(SubSeq(s, 2, Len(s))) ELSE s

\* pd.read_csv on one text column followed by .astype("string"): a column
\* whose non-missing cells are all integers is inferred int64 (float64 when a
\* cell is missing) and prints in that dtype's form; any other column keeps
\* its cells' characters.
ReadTextCol(cells) ==
    LET present == {i \in 1..Len(cells) : cells[i] \notin NaStrings}
        numeric == present # {} /\ \A i \in present : IsDigits(cells[i])
        float   == present # 1..Len(cells)
    IN [i \in 1..Len(cells) |->
           IF i \notin present THEN NA
           ELSE IF numeric
                THEN (IF float THEN IntCanon(cells[i]) \o ".0" ELSE IntCanon(cells[i]))
                ELSE cells[i]]

load_csv(file) ==
    LET col(f)   == [i \in 1..Len(file) |-> file[i][f]]
        stock    == ReadTextCol(col("StockNo"))
        make     == ReadTextCol(col("Make"))
        model    == ReadTextCol(col("Model"))
        vin      == ReadTextCol(col("VIN"))
    IN [i \in 1..Len(file) |->
           [StockNo |-> StripCell(stock[i]),
            Make    |-> StripCell(make[i]),
            Model   |-> StripCell(model[i]),
            Year    |-> ToNumeric(file[i].Year),
            Price   |-> ToNumeric(file[i].Price),
            VIN     |-> StripCell(vin[i])]]

----------------------------------------------------------------------------
(* app.py: text_match *)

\* The searched fields (Trim is not modelled).
MatchFields == {"Make", "Model", "StockNo", "VIN"}

text_match(row, q) ==
    LET qq == Strip(Lower(q))
    IN qq = "" \/ \E f \in MatchFields : Contains(Lower(Str(row[f])), qq)

----------------------------------------------------------------------------
(* Bounds and input sets *)

\* Rows the flat file may grow to (Add New is not offered beyond it).
MaxRows == 3
V17 == "1HGCM82633A004352"

\* data.csv at start: a valid file with unique keys.
InitFile == <<Row("A1", "Kia", "Rio", 2020, 1000, V17)>>

\* What the user types into the Add New form.
AddStockInputs == {"", "B2", " A1 "}
AddModelInputs == {"", "Rio"}
AddYearInputs  == {2020}
AddPriceInputs == {1000}
VinInputs      == {"", "SHORT", V17}

\* What the user types into a cell of the data editor.
EditFields == {"StockNo", "Make", "Year", "Price", "VIN"}
CellValues(f) ==
    CASE f = "StockNo" -> {"", "A1", " B2 "}
      [] f = "Make"    -> {NA, "Kia"}
      [] f = "Model"   -> {NA, "Rio"}
      [] f = "Year"    -> {NaN, 2020}
      [] f = "Price"   -> {NaN, 1000}
      [] f = "VIN"     -> {NA, "SHORT", V17}

\* Search texts of the Edit page.
Queries == {"", "a1"}

----------------------------------------------------------------------------
(* app.py: the script run, the Add New and the Edit Data handlers *)

\* The Browse page has not been run.
NoView == [opened |-> FALSE]

Done(op, ok, key) == [op |-> op, ok |-> ok, key |-> key]

\* `df = load_csv(DATA_PATH)` under @st.cache_data: the cached frame if any.
CachedLoad == IF cache = <<>> THEN load_csv(csv) ELSE cache[1]

\* set(df["StockNo"].astype(str))
Keys(df) == {Str(df[i].StockNo) : i \in 1..Len(df)}

\* get_opts("Make"): sorted(df["Make"].dropna().unique())
Makes(df) == {df[i].Make : i \in 1..Len(df)} \ {NA}

AddErrors(df, stockno, make, model, year, price, vin) ==
    (IF stockno = "" THEN <<Msg(0, "StockNo is required.")>> ELSE <<>>)
    \o (IF make = "" THEN <<Msg(0, "Make is required.")>> ELSE <<>>)
    \o (IF model = "" THEN <<Msg(0, "Model is required.")>> ELSE <<>>)
    \o (IF year = 0 THEN <<Msg(0, "Year is required.")>> ELSE <<>>)
    \o (IF price <= 0 THEN <<Msg(0, "Price must be greater than 0.")>> ELSE <<>>)
    \o (IF stockno # "" /\ stockno \in Keys(df)
        THEN <<Msg(0, "StockNo already exists.")>> ELSE <<>>)
    \o (IF vin # "" /\ Len(vin) # VinLen
        THEN <<Msg(0, "VIN should be exactly 17 characters.")>> ELSE <<>>)

NewRow(stockno, make, model, year, price, vin) ==
    Row(stockno, make, model,
        IF year # 0 THEN year ELSE NaN,
        price,
        IF vin # "" THEN vin ELSE NA)

\* "Save Car": the checks run against the frame loaded at the top of the run;
\* the save clears the cache, loads the file again (which caches the file as it
\* is before the new row) and rewrites the file with the row appended.
AddNew ==
    \E sIn \in AddStockInputs, mdIn \in AddModelInputs, vIn \in VinInputs,
       year \in AddYearInputs, price \in AddPriceInputs,
       make \in {""} \cup Makes(CachedLoad) :
        LET df      == CachedLoad
            stockno == Strip(sIn)
            model   == Strip(mdIn)
            vin     == Strip(vIn)
            errors  == AddErrors(df, stockno, make, model, year, price, vin)
            cur     == load_csv(csv)
        IN /\ IF errors # <<>>
              THEN /\ csv' = csv
                   /\ cache' = <<df>>
                   /\ msgs' = errors
                   /\ last' = Done("add", FALSE, stockno)
              ELSE /\ Len(csv) < MaxRows
                   /\ csv' = save_csv(Append(cur, NewRow(stockno, make, model, year, price, vin)))
                   /\ cache' = <<cur>>
                   /\ msgs' = <<Msg(0, "Saved car")>>
                   /\ last' = Done("add", TRUE, stockno)
           /\ UNCHANGED <<store, stockCache, editCache, batch, errs, pc, sale, unsoldCache, view>>

\* The frames the data editor returns here: the shown frame as it is, or with
\* one cell of a shown row changed.
Edited(df, shown, fields) ==
    {df} \cup UNION {{[df EXCEPT ![i][f] = v] : v \in CellValues(f)} :
                        i \in shown, f \in fields}

\* "Save Changes": the edited rows are mapped back into the frame loaded at the
\* top of the run, coerced and validated; a clean batch replaces the file.
EditSave ==
    \E q \in Queries :
        LET df    == CachedLoad
            shown == {i \in 1..Len(df) : q = "" \/ text_match(df[i], q)}
        IN \E updated_df \in Edited(df, shown, EditFields) :
            LET clean == coerce_for_save(updated_df)
                es    == validate_rows(clean)
            IN /\ IF es # <<>>
                  THEN /\ csv' = csv
                       /\ cache' = <<df>>
                       /\ msgs' = es
                       /\ last' = Done("edit", FALSE, q)
                  ELSE /\ csv' = save_csv(clean)
                       /\ cache' = <<load_csv(save_csv(clean))>>
                       /\ msgs' = <<Msg(0, "Changes saved to CSV")>>
                       /\ last' = Done("edit", TRUE, q)
               /\ UNCHANGED <<store, stockCache, editCache, batch, errs, pc, sale, unsoldCache, view>>

\* "Reset (discard unsaved)": st.cache_data.clear(), which empties the cache of
\* every cached function of the application, and a rerun, which loads.
Reset ==
    /\ cache' = <<load_csv(csv)>>
    /\ stockCache' = <<>>
    /\ editCache' = <<>>
    /\ unsoldCache' = <<>>
    /\ msgs' = <<>>
    /\ last' = Done("reset", TRUE, "")
    /\ UNCHANGED <<csv, store, batch, errs, pc, sale, view>>

\* A run of the Browse page: only the load at the top of the script.
Browse ==
    /\ cache' = <<CachedLoad>>
    /\ msgs' = <<>>
    /\ last' = Done("browse", TRUE, "")
    /\ UNCHANGED <<csv, store, stockCache, editCache, batch, errs, pc, sale, unsoldCache, view>>

Init ==
    /\ csv = InitFile
    /\ cache = <<>>
    /\ store = <<>>
    /\ stockCache = <<>>
    /\ editCache = <<>>
    /\ msgs = <<>>
    /\ last = Done("start", TRUE, "")
    /\ batch = <<>>
    /\ errs = <<>>
    /\ pc = "app"
    /\ sale = <<>>
    /\ unsoldCache = <<>>
    /\ view = NoView

Next == AddNew \/ EditSave \/ Reset \/ Browse

Spec == Init /\ [][Next]_vars

----------------------------------------------------------------------------
(* The relational pages over the SQLite table Store.  A table row holds the  *)
(* column values, NULL being the missing marker (NA for TEXT, NaN for a      *)
(* number); TEXT PRIMARY KEY lets any number of rows hold a NULL StockNo.    *)

\* Columns named by the INSERT statements of pages/2_Add, pages/3_Edit, pages/5_upload.
StoreColumns == 19
\* "?" placeholders in the VALUES list of each statement.
AddPlaceholders == 20
EditPlaceholders == 20
ImportPlaceholders == 19

\* Rows kept in the Store table (an import is not offered beyond it).
MaxStore == 2
\* Rows of an uploaded file.
MaxUpload == 2

\* Cells of uploaded files.
UploadRows ==
    {Row("A1", "Kia", "Rio", 2020, 1000, V17),
     Row("B2", "Kia", "Rio", 2020, 1000, ""),
     Row("A1", "BMW", "Rio", 1899, 0, "SHORT"),
     Row("", "Kia", "Rio", 2020, 1000, V17)}

AllColumns == {"StockNo", "Make", "Model", "Year", "Price", "VIN"}
\* REQUIRED_COLUMNS, on the modelled columns.
RequiredColumns == {"StockNo", "Make", "Model", "Year", "Price", "VIN"}

\* Header rows of uploaded files.
UploadHeaders == {AllColumns, AllColumns \ {"VIN"}}

UploadFiles == UNION {[1..n -> UploadRows] : n \in 1..MaxUpload}

\* What the user types into the Add Car form of pages/2_Add.
DbStockInputs == {"", "A1", "C3"}
DbMakeInputs  == {"", "Kia"}
DbModelInputs == {"Rio"}
DbVinInputs   == {"", "SHORT"}

\* What the user types into a cell of the data editor of pages/3_Edit
\* (StockNo is disabled there).
DbEditFields == {"Make", "Year", "Price", "VIN"}

\* Search texts of pages/3_Edit.
DbQueries == {"", "bmw"}

\* pd.read_csv of the upload followed by import_csv_to_db's to_numeric: text
\* columns as inferred, not stripped; a column the file lacks is all missing.
ReadUpload(cols, file) ==
    LET col(f) == [i \in 1..Len(file) |-> IF f \in cols THEN file[i][f] ELSE ""]
        stock  == ReadTextCol(col("StockNo"))
        make   == ReadTextCol(col("Make"))
        model  == ReadTextCol(col("Model"))
        vin    == ReadTextCol(col("VIN"))
    IN [i \in 1..Len(file) |->
           [StockNo |-> stock[i],
            Make    |-> make[i],
            Model   |-> model[i],
            Year    |-> IF "Year" \in cols THEN ToNumeric(file[i].Year) ELSE NaN,
            Price   |-> IF "Price" \in cols THEN ToNumeric(file[i].Price) ELSE NaN,
            VIN     |-> vin[i]]]

\* The non-NULL keys of the table.
TableKeys(table) == {table[i].StockNo : i \in 1..Len(table)} \ {NA}

\* Rows of `table` other than those keyed `key`.
Without(table, key) == SelectSeq(table, LAMBDA r : r.StockNo # key)

\* INSERT OR REPLACE INTO Store: a row with the same non-NULL key is deleted,
\* the new row is appended.
InsertOrReplace(table, r) ==
    IF r.StockNo = NA THEN Append(table, r) ELSE Append(Without(table, r.StockNo), r)

RECURSIVE ExecuteMany(_, _, _)
ExecuteMany(table, rows, i) ==
    IF i > Len(rows) THEN table
    ELSE ExecuteMany(InsertOrReplace(table, rows[i]), rows, i + 1)

\* pages/5_upload: import_csv_to_db, the table after the commit.
import_csv_to_db(table, df) == ExecuteMany(table, df, 1)

\* pages/5_upload: "Import to database" on an uploaded file.
Import ==
    \E cols \in UploadHeaders, file \in UploadFiles :
        LET missing == RequiredColumns \ cols
            df      == ReadUpload(cols, file)
            after   == import_csv_to_db(store, df)
        IN /\ IF missing # {}
              THEN /\ store' = store
                   /\ msgs' = <<Msg(0, "CSV is missing required columns")>>
                   /\ last' = Done("import", FALSE, "")
              ELSE /\ ImportPlaceholders = StoreColumns
                   /\ Len(after) <= MaxStore
                   /\ store' = after
                   /\ msgs' = <<Msg(Len(df), "Imported / updated rows")>>
                   /\ last' = Done("import", TRUE, "")
           /\ UNCHANGED <<csv, cache, stockCache, editCache, batch, errs, pc, sale, unsoldCache, view>>

\* pages/2_Add: load_existing_stocknos under @st.cache_data.
CachedStockNos == IF stockCache = <<>> THEN Keys(store) ELSE stockCache[1]

DbAddErrors(existing, stock, make, model, vin) ==
    (IF stock = "" THEN <<Msg(0, "StockNo required.")>> ELSE <<>>)
    \o (IF make = "" THEN <<Msg(0, "Make required.")>> ELSE <<>>)
    \o (IF model = "" THEN <<Msg(0, "Model required.")>> ELSE <<>>)
    \o (IF vin # "" /\ Len(vin) # VinLen THEN <<Msg(0, "VIN must be 17 chars.")>> ELSE <<>>)
    \o (IF stock # "" /\ stock \in existing
        THEN <<Msg(0, "StockNo already exists.")>> ELSE <<>>)

\* pages/2_Add: "Save".  insert_car's statement binds AddPlaceholders values
\* to StoreColumns columns; sqlite3 refuses a statement whose counts differ,
\* and a key already in the table.
DbAdd ==
    \E stock \in DbStockInputs, make \in DbMakeInputs, model \in DbModelInputs,
       vin \in DbVinInputs, year \in AddYearInputs, price \in AddPriceInputs :
        LET existing == CachedStockNos
            es       == DbAddErrors(existing, stock, make, model, vin)
        IN /\ IF es # <<>>
              THEN /\ store' = store
                   /\ stockCache' = <<existing>>
                   /\ msgs' = es
                   /\ last' = Done("dbadd", FALSE, stock)
              ELSE IF AddPlaceholders # StoreColumns \/ stock \in TableKeys(store)
              THEN /\ store' = store
                   /\ stockCache' = <<existing>>
                   /\ msgs' = <<Msg(0, "Error saving car")>>
                   /\ last' = Done("dbadd", FALSE, stock)
              ELSE /\ Len(store) < MaxStore
                   /\ store' = Append(store, Row(stock, make, model, year, price, vin))
                   /\ stockCache' = <<>>
                   /\ msgs' = <<Msg(0, "Saved")>>
                   /\ last' = Done("dbadd", TRUE, stock)
           /\ UNCHANGED <<csv, cache, editCache, batch, errs, pc, sale, unsoldCache, view>>

\* pages/3_Edit: load_df, the SELECT of every column with the dtype coercions.
load_df(table) ==
    [i \in 1..Len(table) |->
        [table[i] EXCEPT !.Year = ToNumeric(@), !.Price = ToNumeric(@)]]

CachedLoadDf == IF editCache = <<>> THEN load_df(store) ELSE editCache[1]

\* str(r) of a row Series: every label with its value, then the Name line.
NumStr(n) == IF n = NaN THEN "NaN" ELSE ToString(n)
RowRepr(r, idx) ==
    "StockNo " \o Str(r.StockNo) \o "\nMake " \o Str(r.Make)
    \o "\nModel " \o Str(r.Model) \o "\nYear " \o NumStr(r.Year)
    \o "\nPrice " \o NumStr(r.Price) \o "\nVIN " \o Str(r.VIN)
    \o "\nName: " \o ToString(idx) \o ", dtype: object"

\* One statement of upsert_rows' loop on `row`; "skip" leaves the table alone,
\* "raise" aborts the batch.
UpsertOutcome(row) ==
    IF row.StockNo = NA THEN "raise"                 \* `pd.NA or ""`: TypeError
    ELSE IF Strip(row.StockNo) = "" THEN "skip"
    ELSE IF EditPlaceholders # StoreColumns THEN "raise"
    ELSE "upsert"

\* INSERT ... ON CONFLICT(StockNo) DO UPDATE: the row keyed `key` is
\* overwritten in place, a new key is appended.
Upsert(table, key, row) ==
    LET r == [row EXCEPT !.StockNo = key]
    IN IF \E i \in 1..Len(table) : table[i].StockNo = key
       THEN [i \in 1..Len(table) |-> IF table[i].StockNo = key THEN r ELSE table[i]]
       ELSE Append(table, r)

RECURSIVE UpsertLoop(_, _, _)
UpsertLoop(t, edited, i) ==
    IF i > Len(edited) THEN [ok |-> TRUE, table |-> t]
    ELSE LET o == UpsertOutcome(edited[i])
         IN IF o = "raise" THEN [ok |-> FALSE, table |-> t]
            ELSE IF o = "skip" THEN UpsertLoop(t, edited, i + 1)
            ELSE UpsertLoop(Upsert(t, Strip(edited[i].StockNo), edited[i]), edited, i + 1)

\* A delete step that does not look at the search text.
ToDeleteUnfiltered(full_df, edited_df, q) ==
    (Keys(full_df) \ Keys(edited_df)) \ {""}

\* The keys upsert_rows executes "DELETE FROM Store WHERE StockNo = ?" with.
ToDelete(full_df, edited_df, q) ==
    IF q = "" THEN (Keys(full_df) \ Keys(edited_df)) \ {""} ELSE {}

\* An upsert_rows whose statements take effect one by one (a connection in
\* autocommit mode): what ran before the exception stays.
upsert_rows_autocommit(table, full_df, edited_df, q) ==
    LET to_delete == ToDelete(full_df, edited_df, q)
        deleted   == SelectSeq(table, LAMBDA r : r.StockNo \notin to_delete)
        done      == UpsertLoop(deleted, edited_df, 1)
    IN [ok      |-> done.ok,
        table   |-> done.table,
        deletes |-> to_delete]

\* upsert_rows: the deletes (unfiltered edits only), then the upserts, then the
\* commit; an exception closes the connection without a commit, which rolls
\* every statement of the batch back.
upsert_rows(table, full_df, edited_df, q) ==
    LET to_delete == ToDelete(full_df, edited_df, q)
        deleted   == SelectSeq(table, LAMBDA r : r.StockNo \notin to_delete)
        done      == UpsertLoop(deleted, edited_df, 1)
    IN [ok      |-> done.ok,
        table   |-> IF done.ok THEN done.table ELSE table,
        deletes |-> to_delete]

\* pages/3_Edit: "Save Changes" on the frame returned by the data editor.
DbEditSave ==
    \E q \in DbQueries :
        LET df    == CachedLoadDf
            idx   == {i \in 1..Len(df) : q = "" \/ Contains(Lower(RowRepr(df[i], i - 1)), Lower(q))}
            work  == SelectSeq([i \in 1..Len(df) |-> [r |-> df[i], shown |-> i \in idx]],
                               LAMBDA x : x.shown)
            rows  == [i \in 1..Len(work) |-> work[i].r]
        IN \E edited \in Edited(rows, 1..Len(rows), DbEditFields) :
            LET done == upsert_rows(store, df, edited, q)
            IN /\ IF done.ok
                  THEN /\ store' = done.table
                       /\ editCache' = <<load_df(done.table)>>
                       /\ msgs' = <<Msg(0, "Saved changes to database.")>>
                       /\ last' = Done("dbedit", TRUE, q)
                  ELSE /\ store' = store
                       /\ editCache' = <<df>>
                       /\ msgs' = <<Msg(0, "Error saving changes")>>
                       /\ last' = Done("dbedit", FALSE, q)
               /\ UNCHANGED <<csv, cache, stockCache, batch, errs, pc, sale, unsoldCache, view>>

InitDb ==
    /\ csv = <<>>
    /\ cache = <<>>
    /\ store = <<>>
    /\ stockCache = <<>>
    /\ editCache = <<>>
    /\ msgs = <<>>
    /\ last = Done("start", TRUE, "")
    /\ batch = <<>>
    /\ errs = <<>>
    /\ pc = "db"
    /\ sale = <<>>
    /\ unsoldCache = <<>>
    /\ view = NoView

NextDb == Import \/ DbAdd \/ DbEditSave

SpecDb == InitDb /\ [][NextDb]_vars

----------------------------------------------------------------------------
(* coerce_for_save, validate_rows, save_csv and load_csv applied to frames   *)
(* drawn from bounded sets: the Edit flow (coerce, then validate or save and *)
(* load again) and validate_rows called on a frame as it is.                 *)

\* Rows of a frame with repeated keys.
MaxBatch == 4

\* One-row frames: every combination of these cells.
FnStockCells == {NA, "", " A1 ", "007"}
FnMakeCells  == {NA, "", "Kia"}
FnModelCells == {NA, "Rio"}
FnYearCells  == {NaN, NotNum, 1899, 2020}
FnPriceCells == {NaN, NotNum, 0, 1000}
FnVinCells   == {NA, "", "SHORT", V17}

FnRows ==
    {Row(s, mk, md, y, p, v) : s \in FnStockCells, mk \in FnMakeCells,
        md \in FnModelCells, y \in FnYearCells, p \in FnPriceCells, v \in FnVinCells}

\* Rows of the longer frames: keys that repeat, with and without a row error.
KeyRows ==
    {Row(s, "Kia", "Rio", y, 1000, V17) : s \in {NA, "A1", "a1"}, y \in {1899, 2020}}

FnBatches ==
    {<<>>} \cup {<<r>> : r \in FnRows} \cup UNION {[1..n -> KeyRows] : n \in 2..MaxBatch}

FnCoerce ==
    /\ pc = "raw"
    /\ batch' = coerce_for_save(batch)
    /\ pc' = "coerced"
    /\ UNCHANGED <<csv, cache, store, stockCache, editCache, msgs, last, errs, sale, unsoldCache, view>>

FnValidate ==
    /\ pc \in {"raw", "coerced"}
    /\ errs' = validate_rows(batch)
    /\ pc' = IF pc = "raw" THEN "validated raw" ELSE "validated"
    /\ UNCHANGED <<csv, cache, store, stockCache, editCache, msgs, last, batch, sale, unsoldCache, view>>

FnSave ==
    /\ pc = "coerced"
    /\ csv' = save_csv(batch)
    /\ pc' = "saved"
    /\ UNCHANGED <<cache, store, stockCache, editCache, msgs, last, batch, errs, sale, unsoldCache, view>>

FnLoad ==
    /\ pc = "saved"
    /\ cache' = <<load_csv(csv)>>
    /\ pc' = "loaded"
    /\ UNCHANGED <<csv, store, stockCache, editCache, msgs, last, batch, errs, sale, unsoldCache, view>>

InitFn ==
    /\ csv = <<>>
    /\ cache = <<>>
    /\ store = <<>>
    /\ stockCache = <<>>
    /\ editCache = <<>>
    /\ msgs = <<>>
    /\ last = Done("start", TRUE, "")
    /\ batch \in FnBatches
    /\ errs = <<>>
    /\ pc = "raw"
    /\ sale = <<>>
    /\ unsoldCache = <<>>
    /\ view = NoView

NextFn == FnCoerce \/ FnValidate \/ FnSave \/ FnLoad

SpecFn == InitFn /\ [][NextFn]_vars

----------------------------------------------------------------------------
(* pages/2_Sale: the Record Sale page over the store and sale tables.  A sale *)
(* row holds the vehicle's StockNo and the sale price; the sale table has a   *)
(* generated primary key and no uniqueness constraint on StockNo.            *)

\* Rows kept in the sale table (a sale is not offered beyond it).
MaxSales == 3

\* The store table the page reads.
SaleStore ==
    <<Row("A1", "Kia", "Rio", 2020, 1000, V17), Row("B2", "BMW", "X5", 2021, 2000, NA)>>

\* What the user types into "Sale price" (the list price is the default).
SalePriceInputs == {0, 900}

\* load_unsold_cars: the store rows with no row in sale.
load_unsold_cars(st, sa) ==
    SelectSeq(st, LAMBDA r : \A i \in 1..Len(sa) : sa[i].StockNo # r.StockNo)

\* `inventory = load_unsold_cars(DB_URL)` under @st.cache_data.
CachedUnsold ==
    IF unsoldCache = <<>> THEN load_unsold_cars(store, sale) ELSE unsoldCache[1]

\* record_sale: one INSERT INTO sale, committed.
record_sale(sa, stock_no, sale_price) ==
    Append(sa, [StockNo |-> stock_no, SalePrice |-> sale_price])

\* A run of the page without a submission.
SalePage ==
    /\ unsoldCache' = <<CachedUnsold>>
    /\ msgs' = IF CachedUnsold = <<>> THEN <<Msg(0, "No available cars to sell")>> ELSE <<>>
    /\ last' = Done("sale page", TRUE, "")
    /\ UNCHANGED <<csv, cache, store, stockCache, editCache, batch, errs, pc, sale, view>>

\* "Save Sale": the vehicle is chosen among the inventory loaded at the top of
\* the run; the rerun after a recorded sale loads through the same cache.
SaveSale ==
    LET inventory == CachedUnsold
    IN /\ inventory # <<>>
       /\ \E i \in 1..Len(inventory) :
          \E sale_price \in SalePriceInputs \cup {inventory[i].Price} :
            LET selected_stock_no == inventory[i].StockNo
            IN IF sale_price <= 0
               THEN /\ sale' = sale
                    /\ msgs' = <<Msg(0, "Sale price must be greater than 0.")>>
                    /\ last' = Done("sale", FALSE, selected_stock_no)
               ELSE /\ Len(sale) < MaxSales
                    /\ sale' = record_sale(sale, selected_stock_no, sale_price)
                    /\ msgs' = <<Msg(0, "Sale recorded")>>
                    /\ last' = Done("sale", TRUE, selected_stock_no)
       /\ unsoldCache' = <<inventory>>
       /\ UNCHANGED <<csv, cache, store, stockCache, editCache, batch, errs, pc, view>>

InitSale ==
    /\ csv = <<>>
    /\ cache = <<>>
    /\ store = SaleStore
    /\ stockCache = <<>>
    /\ editCache = <<>>
    /\ msgs = <<>>
    /\ last = Done("start", TRUE, "")
    /\ batch = <<>>
    /\ errs = <<>>
    /\ pc = "sale"
    /\ sale = <<>>
    /\ unsoldCache = <<>>
    /\ view = NoView

NextSale == SalePage \/ SaveSale \/ Reset

SpecSale == InitSale /\ [][NextSale]_vars

----------------------------------------------------------------------------
(* The Browse page of app.py (over the frame load_csv returned) and of       *)
(* pages/1_Browse (over the frame load_db returned): filters, sort and page. *)
(* The frame is held in `batch`; Make stands for the six categorical         *)
(* columns, Price and Year for the three numeric ones.                       *)

\* Records of the larger collection.
BrowseTotal == 25

\* The default slider bounds passed to numeric_bounds.
PriceDefault == <<0, 100000>>
YearDefault == <<1990, 2035>>

\* "Cards per page": values of [6, 9, 12, 15, 18, 24] and the initial one.
PageSizes == {6, 12}
DefaultPageSize == 12

\* "Sort by": the numeric options.
SortFields == {"Price", "Year"}

\* Search texts typed into the sidebar.
BrowseQueries == {"", " KIA ", "na"}

MinOf(S) == CHOOSE x \in S : \A y \in S : x <= y
MaxOf(S) == CHOOSE x \in S : \A y \in S : x >= y

\* numeric_bounds(s, default)
numeric_bounds(df, col, default) ==
    LET s == {df[i][col] : i \in 1..Len(df)} \ {NaN}
    IN IF s = {} THEN default
       ELSE <<MinOf(s), IF MinOf(s) = MaxOf(s) THEN MinOf(s) + 1 ELSE MaxOf(s)>>

\* filtered[filtered.apply(lambda row: text_match(row, fields, q), axis=1)]
TextFilter(data, q) == SelectSeq(data, LAMBDA r : text_match(r, q))

\* An allow-list filter under which an empty list allows nothing.
apply_multi_filter_strict(data, col, values) ==
    SelectSeq(data, LAMBDA r : r[col] \in values)

\* apply_multi_filter(data, col, values)
apply_multi_filter(data, col, values) ==
    IF values # {} THEN SelectSeq(data, LAMBDA r : r[col] \in values) ELSE data

\* A range filter that also drops the first record in range.
RangeFilterSkipFirst(data, col, range) ==
    LET kept == SelectSeq(data, LAMBDA r :
                    r[col] # NaN /\ r[col] >= range[1] /\ r[col] <= range[2])
    IN IF kept = <<>> THEN kept ELSE Tail(kept)

\* filtered[(filtered[col] >= f[0]) & (filtered[col] <= f[1])]: a comparison
\* with a missing number is False.
RangeFilter(data, col, range) ==
    SelectSeq(data, LAMBDA r : r[col] # NaN /\ r[col] >= range[1] /\ r[col] <= range[2])

\* sort_values: value a is placed before value b; missing values go last.
Before(a, b, asc) == a # NaN /\ (b = NaN \/ (IF asc THEN a < b ELSE a > b))

\* Rows i.. of `data` put one by one into the ordered `acc`, each after the
\* rows it is not placed before.
RECURSIVE StableInsert(_, _, _, _, _)
StableInsert(data, i, acc, by, asc) ==
    IF i > Len(data) THEN acc
    ELSE LET p == Cardinality({k \in 1..Len(acc) :
                      ~Before(data[i][by], acc[k][by], asc)})
         IN StableInsert(data, i + 1,
                SubSeq(acc, 1, p) \o <<data[i]>> \o SubSeq(acc, p + 1, Len(acc)),
                by, asc)

\* sort_values(kind="mergesort"): equal values keep their input order, in
\* both directions.
StableOrder(data, by, asc) == StableInsert(data, 1, <<>>, by, asc)

\* The positions of S no other position of S is placed before.
Firsts(data, S, by, asc) ==
    {i \in S : \A j \in S : ~Before(data[j][by], data[i][by], asc)}

\* Every order of the rows at positions S that respects `Before`; missing
\* values keep their input order at the end.
RECURSIVE TieOrders(_, _, _, _)
TieOrders(data, S, by, asc) ==
    IF S = {} THEN {<<>>}
    ELSE LET f    == Firsts(data, S, by, asc)
             next == IF data[MinOf(f)][by] = NaN THEN {MinOf(f)} ELSE f
         IN UNION {{<<data[i]>> \o t : t \in TieOrders(data, S \ {i}, by, asc)} : i \in next}

\* sort_values with the default kind="quicksort": the order of equal values
\* is not specified.  Without equal values the order is the only one.
AnyOrders(data, by, asc) ==
    IF \A i, j \in 1..Len(data) :
          (i # j /\ data[i][by] # NaN) => data[i][by] # data[j][by]
    THEN {StableOrder(data, by, asc)}
    ELSE TieOrders(data, 1..Len(data), by, asc)

\* max(1, math.ceil(total / per_page))
NumPages(total, per_page) == MaxOf({1, (total + per_page - 1) \div per_page})

\* A slice start that counts pages from zero.
PageStartFromOne(page_no, per_page) == page_no * per_page

\* start = (page_no-1)*per_page
PageStart(page_no, per_page) == (page_no - 1) * per_page

\* filtered.iloc[start:start+per_page]
PageSlice(data, page_no, per_page) ==
    LET start == PageStart(page_no, per_page)
        end   == IF start + per_page < Len(data) THEN start + per_page ELSE Len(data)
    IN SubSeq(data, start + 1, end)

\* The sidebar widgets on the first run.
DefaultWidgets(df) ==
    [q        |-> "",
     f_make   |-> {},
     f_price  |-> numeric_bounds(df, "Price", PriceDefault),
     f_year   |-> numeric_bounds(df, "Year", YearDefault),
     sort_by  |-> "Price",
     asc      |-> FALSE,
     per_page |-> DefaultPageSize]

\* Slider positions used here: the whole range, or its low end only.
RangeChoices(bounds) == {bounds, <<bounds[1], bounds[1]>>}

\* The widget values after the user changed one sidebar widget (the Year
\* slider is left at its whole range).
ChangedWidgets(df, w) ==
    ({[w EXCEPT !.q = v] : v \in BrowseQueries}
     \cup {[w EXCEPT !.f_make = v] : v \in SUBSET Makes(df)}
     \cup {[w EXCEPT !.f_price = v] : v \in RangeChoices(numeric_bounds(df, "Price", PriceDefault))}
     \cup {[w EXCEPT !.sort_by = v] : v \in SortFields}
     \cup {[w EXCEPT !.asc = v] : v \in BOOLEAN}
     \cup {[w EXCEPT !.per_page = v] : v \in PageSizes}) \ {w}

\* The filter pipeline: text, then allow-list, then the numeric ranges.
FilterStages(df, w) ==
    LET afterText  == TextFilter(df, w.q)
        afterMulti == apply_multi_filter(afterText, "Make", w.f_make)
        afterPrice == RangeFilter(afterMulti, "Price", w.f_price)
        filtered   == RangeFilter(afterPrice, "Year", w.f_year)
    IN [afterText |-> afterText, afterMulti |-> afterMulti,
        afterPrice |-> afterPrice, filtered |-> filtered]

\* st.number_input("Page", min_value=1, max_value=pages, key="page_no") and
\* the read of st.session_state.page_no after it.  With the same maximum as
\* on the last run the widget holds the stored number.  A widget is
\* identified by its parameters, so with another maximum it is a new widget:
\* it starts from its default, min_value, or carries the number kept under
\* its key, which the script does not compare with the new maximum.
PageNumbers(stored, lastMax, pages) ==
    IF lastMax = pages THEN {stored} ELSE {1, stored}

\* One run of the page: the widget values `w`, the page number `stored` in
\* the session state and the maximum `lastMax` of the Page widget as last
\* rendered.
BrowseRun(impl, w, stored, lastMax) ==
    LET st     == FilterStages(batch, w)
        n      == Len(st.filtered)
        orders == IF impl = "app"
                  THEN {StableOrder(st.filtered, w.sort_by, w.asc)}
                  ELSE AnyOrders(st.filtered, w.sort_by, w.asc)
        pages  == NumPages(n, w.per_page)
    IN \E sorted \in orders, page_no \in PageNumbers(stored, lastMax, pages) :
        /\ view' = [opened     |-> TRUE,
                    impl       |-> impl,
                    w          |-> w,
                    stored     |-> stored,
                    price      |-> numeric_bounds(batch, "Price", PriceDefault),
                    year       |-> numeric_bounds(batch, "Year", YearDefault),
                    afterText  |-> st.afterText,
                    afterMulti |-> st.afterMulti,
                    afterPrice |-> st.afterPrice,
                    filtered   |-> st.filtered,
                    sorted     |-> sorted,
                    total      |-> n,
                    pages      |-> pages,
                    page_no    |-> page_no,
                    rows       |-> PageSlice(sorted, page_no, w.per_page)]
        /\ msgs' = <<>>
        /\ last' = Done("browse", TRUE, w.q)
        /\ UNCHANGED <<csv, cache, store, stockCache, editCache, batch, errs, pc,
                       sale, unsoldCache>>

\* The page is opened (page_no is set to 1), the user changes one sidebar
\* widget, or the user sets the Page widget within its rendered range.
BrowseStep(impl) ==
    IF ~view.opened
    THEN BrowseRun(impl, DefaultWidgets(batch), 1, 1)
    ELSE \/ \E w \in ChangedWidgets(batch, view.w) :
               BrowseRun(impl, w, view.page_no, view.pages)
         \/ \E k \in (1..view.pages) \ {view.page_no} :
               BrowseRun(impl, view.w, k, view.pages)

\* app.py, page "Browse".
BrowseCsv == pc = "browse app" /\ BrowseStep("app")

\* pages/1_Browse.
BrowseDb == pc = "browse db" /\ BrowseStep("db")

\* Loaded collections.
SmallFrame ==
    <<Row("A1", "Kia", "Rio", 2020, 1000, V17),
      Row("B2", "BMW", "X5", 2021, 1000, NA),
      Row("C3", "Kia", "Rio", 2020, 2000, V17)>>

NoPriceFrame ==
    <<Row("A1", "Kia", "Rio", 2020, NaN, V17), Row("B2", "BMW", "X5", 2021, NaN, V17)>>

BigFrame ==
    [i \in 1..BrowseTotal |->
        Row("S" \o ToString(i), IF i % 2 = 0 THEN "Kia" ELSE "BMW", "Rio",
            1990 + i, 1000 * i, NA)]

BrowseFrames == {<<>>, SmallFrame, NoPriceFrame, BigFrame}

InitBrowse ==
    /\ csv = <<>>
    /\ cache = <<>>
    /\ store = <<>>
    /\ stockCache = <<>>
    /\ editCache = <<>>
    /\ msgs = <<>>
    /\ last = Done("start", TRUE, "")
    /\ batch \in BrowseFrames
    /\ errs = <<>>
    /\ pc \in {"browse app", "browse db"}
    /\ sale = <<>>
    /\ unsoldCache = <<>>
    /\ view = NoView

NextBrowse == BrowseCsv \/ BrowseDb

SpecBrowse == InitBrowse /\ [][NextBrowse]_vars

----------------------------------------------------------------------------
(* pages/3_Edit: upsert_rows called on a table drawn from a bounded set, with *)
(* the frame load_df returns for it and an edited frame that keeps any part   *)
(* of its rows.                                                               *)

\* Rows of the tables.
UpsertPool ==
    {Row("A1", "Kia", "Rio", 2020, 1000, V17),
     Row("B2", "BMW", "X5", 2021, 2000, NA),
     Row("C3", "Kia", "Rio", 2020, 2000, V17),
     Row(NA, "BMW", "X5", 2021, 1000, NA)}

\* Tables of up to MaxStore rows with distinct keys.
UpsertTables ==
    {t \in UNION {[1..n -> UpsertPool] : n \in 0..MaxStore} :
        \A i, j \in 1..Len(t) : i # j => t[i].StockNo # t[j].StockNo}

\* The rows of df at the positions `keep`, in order.
KeepRows(df, keep) ==
    LET marked == SelectSeq([i \in 1..Len(df) |-> [r |-> df[i], kept |-> i \in keep]],
                            LAMBDA x : x.kept)
    IN [i \in 1..Len(marked) |-> marked[i].r]

CallUpsert ==
    /\ pc = "upsert"
    /\ \E q \in DbQueries, keep \in SUBSET (1..Len(store)) :
        LET full_df   == load_df(store)
            edited_df == KeepRows(full_df, keep)
            done      == upsert_rows(store, full_df, edited_df, q)
        IN /\ store' = done.table
           /\ msgs' = IF done.ok THEN <<>> ELSE <<Msg(0, "Error saving changes")>>
           /\ last' = [op |-> "upsert_rows", ok |-> done.ok, key |-> q,
                       deletes |-> done.deletes, edited |-> Keys(edited_df)]
    /\ UNCHANGED <<csv, cache, stockCache, editCache, batch, errs, pc,
                   sale, unsoldCache, view>>

InitUpsert ==
    /\ csv = <<>>
    /\ cache = <<>>
    /\ store \in UpsertTables
    /\ stockCache = <<>>
    /\ editCache = <<>>
    /\ msgs = <<>>
    /\ last = Done("start", TRUE, "")
    /\ batch = <<>>
    /\ errs = <<>>
    /\ pc = "upsert"
    /\ sale = <<>>
    /\ unsoldCache = <<>>
    /\ view = NoView

NextUpsert == CallUpsert

SpecUpsert == InitUpsert /\ [][NextUpsert]_vars

----------------------------------------------------------------------------
(* pages/5_upload: the upload page run on files whose header may lack a      *)
(* required column, lack the optional column Trim, or carry a column that    *)
(* CSV_COLUMNS does not name.  Table rows here carry the Trim column too.    *)

\* CSV_COLUMNS that REQUIRED_COLUMNS does not list, on the modelled columns.
OptionalColumns == {"Trim"}
\* A column of an upload that CSV_COLUMNS does not name.
ExtraColumns == {"Notes"}

\* One line of an uploaded file: the six cells and the Trim and Notes cells.
FileRow(r, trim, notes) == r @@ [Trim |-> trim, Notes |-> notes]

\* One row of the Store table with its Trim column.
StoreRow(r, trim) == r @@ [Trim |-> trim]

\* Lines of uploaded files.
LineA == FileRow(Row("A1", "Kia", "Rio", 2020, 1000, V17), "LX", "seen")
LineA2 == FileRow(Row("A1", "BMW", "X5", 2021, 2000, ""), "", "")
LineB == FileRow(Row("B2", "Kia", "Rio", NotNum, 1000, V17), "EX", "seen")
LineN == FileRow(Row("", "BMW", "X5", 2021, 1000, ""), "", "")

\* Uploaded files: one line, distinct keys, a line without a key, a key
\* repeated with other values, a line repeated as it is.
ImportFiles ==
    {<<LineA>>, <<LineN>>, <<LineA, LineB>>, <<LineB, LineN>>,
     <<LineA, LineA2>>, <<LineB, LineB>>}

\* Header rows of uploaded files.
ImportHeaders ==
    {RequiredColumns \cup opt : opt \in SUBSET (OptionalColumns \cup ExtraColumns)}
    \cup {(RequiredColumns \ {"VIN"}) \cup OptionalColumns}

\* Tables the page is opened on.
ImportTables ==
    {<<>>,
     <<StoreRow(Row("A1", "Kia", "Rio", 2019, 900, NA), "GT")>>,
     <<StoreRow(Row("C3", "BMW", "X5", 2021, 2000, V17), NA),
       StoreRow(Row("A1", "Kia", "Rio", 2019, 900, NA), "GT")>>}

\* A check that lets every header through.
MissingColumnsNone(cols) == {}

\* missing = [c for c in REQUIRED_COLUMNS if c not in df.columns]
MissingColumns(cols) == RequiredColumns \ cols

\* pd.read_csv of the upload, then import_csv_to_db's column fill and row
\* tuples: the tuple takes the CSV_COLUMNS cells only, and a CSV_COLUMNS
\* column the file lacks is pd.NA in every row.
ReadUploadWide(cols, file) ==
    LET base == ReadUpload(cols, file)
        trim == ReadTextCol([i \in 1..Len(file) |->
                                IF "Trim" \in cols THEN file[i].Trim ELSE ""])
    IN [i \in 1..Len(file) |-> StoreRow(base[i], trim[i])]

\* One run of the page with a file uploaded and "Import to database" pressed.
UploadImport ==
    /\ pc = "import"
    /\ \E cols \in ImportHeaders, file \in ImportFiles :
        LET missing == MissingColumns(cols)
            df      == ReadUploadWide(cols, file)
            after   == import_csv_to_db(store, df)
        IN IF missing # {}
           THEN /\ store' = store
                /\ batch' = <<>>
                /\ msgs' = <<Msg(0, "CSV is missing required columns")>>
                /\ last' = [op |-> "import", ok |-> FALSE, key |-> "", cols |-> cols,
                            before |-> store, count |-> 0]
           ELSE /\ ImportPlaceholders = StoreColumns
                /\ Len(after) <= MaxStore
                /\ store' = after
                /\ batch' = df
                /\ msgs' = <<Msg(Len(df), "Imported / updated rows")>>
                /\ last' = [op |-> "import", ok |-> TRUE, key |-> "", cols |-> cols,
                            before |-> store, count |-> Len(df)]
    /\ UNCHANGED <<csv, cache, stockCache, editCache, errs, pc, sale, unsoldCache, view>>

InitImport ==
    /\ csv = <<>>
    /\ cache = <<>>
    /\ store \in ImportTables
    /\ stockCache = <<>>
    /\ editCache = <<>>
    /\ msgs = <<>>
    /\ last = Done("start", TRUE, "")
    /\ batch = <<>>
    /\ errs = <<>>
    /\ pc = "import"
    /\ sale = <<>>
    /\ unsoldCache = <<>>
    /\ view = NoView

NextImport == UploadImport

SpecImport == InitImport /\ [][NextImport]_vars

----------------------------------------------------------------------------
(* pages/4_Compare and the Browse pages run over persisted data.  A table    *)
(* row here also carries Mileage, Fuel and Drivetrain.  The Store table does *)
(* not change in these behaviours, so the page's cached load_df is the       *)
(* table's content.                                                          *)

\* One row of the Store table with the columns model_summary reads.
CarRow(r, mileage, fuel, drive) ==
    r @@ [Mileage |-> mileage, Fuel |-> fuel, Drivetrain |-> drive]

\* Three Kia Rio with every value present; two BMW X5 whose fuels are tied.
PricedTable ==
    <<CarRow(Row("A1", "Kia", "Rio", 2020, 10000, V17), 100, "Petrol", "FWD"),
      CarRow(Row("B2", "BMW", "X5", 2021, 10000, NA), 300, "Petrol", "AWD"),
      CarRow(Row("A2", "Kia", "Rio", 2021, 20000, V17), 200, "Diesel", "FWD"),
      CarRow(Row("B3", "BMW", "X5", 2019, 20001, NA), 500, "Diesel", "AWD"),
      CarRow(Row("A3", "Kia", "Rio", 2022, 30000, V17), 300, "Petrol", "AWD")>>

\* Records with missing values: no Year (Kia Rio), no Price, Mileage, Fuel
\* and Drivetrain (BMW X5), no Model (Audi).
SparseTable ==
    <<CarRow(Row("A1", "Kia", "Rio", NaN, 1000, V17), 100, "Petrol", "FWD"),
      CarRow(Row("B2", "BMW", "X5", 2021, NaN, NA), NaN, NA, NA),
      CarRow(Row("D4", "Audi", NA, 2020, 3000, NA), 100, "Diesel", "FWD"),
      CarRow(Row("B3", "BMW", "X5", 2019, NaN, NA), NaN, NA, NA)>>

\* A table whose records have no Make.
NoMakeTable ==
    <<CarRow(Row("A1", NA, "Rio", 2020, 1000, V17), 100, "Petrol", "FWD")>>

CompareTables == {<<>>, PricedTable, SparseTable, NoMakeTable}

\* The sale table and the flat file next to it.
RecordedSales == <<[StockNo |-> "A1", Sale_Price |-> 900]>>

\* pages/4_Compare: load_df, the SELECT with the to_numeric coercions.
compare_load_df(table) ==
    [i \in 1..Len(table) |->
        [table[i] EXCEPT !.Year = ToNumeric(@), !.Price = ToNumeric(@),
                         !.Mileage = ToNumeric(@)]]

\* fmt_money / fmt_km when int(v) raises (v is NaN), and the text shown for a
\* column without a value.
Dash == -3
DashText == "-"

RECURSIVE SumSeq(_, _)
SumSeq(xs, i) == IF i > Len(xs) THEN 0 ELSE xs[i] + SumSeq(xs, i + 1)

\* The non-missing values of a numeric column, in record order.
Present(df, col) ==
    LET rows == SelectSeq(df, LAMBDA r : r[col] # NaN)
    IN [i \in 1..Len(rows) |-> rows[i][col]]

\* fmt_money(Series.min()), fmt_money(Series.max()): int() of the value.
FmtMin(xs) == IF xs = <<>> THEN Dash ELSE MinOf({xs[i] : i \in 1..Len(xs)})
FmtMax(xs) == IF xs = <<>> THEN Dash ELSE MaxOf({xs[i] : i \in 1..Len(xs)})

\* fmt_money(Series.mean()): int() truncates the quotient.
FmtMean(xs) == IF xs = <<>> THEN Dash ELSE SumSeq(xs, 1) \div Len(xs)

\* fmt_money(Series.median()): the middle value, or int() of the mean of the
\* two middle values.
FmtMedian(df, col) ==
    LET rows == StableOrder(SelectSeq(df, LAMBDA r : r[col] # NaN), col, TRUE)
        n    == Len(rows)
    IN IF n = 0 THEN Dash
       ELSE IF n % 2 = 1 THEN rows[(n + 1) \div 2][col]
       ELSE (rows[n \div 2][col] + rows[n \div 2 + 1][col]) \div 2

\* The texts of the Fuel and Drivetrain columns in sort order.
TextOrder == <<"AWD", "Diesel", "FWD", "Petrol">>

\* Series.mode()[0]: the most frequent values come back sorted, [0] is the
\* least of them.
ModeFirst(df, col) ==
    LET vals     == {df[i][col] : i \in 1..Len(df)} \ {NA}
        count(v) == Cardinality({i \in 1..Len(df) : df[i][col] = v})
        modes    == {v \in vals : \A u \in vals : count(v) >= count(u)}
        rank(v)  == CHOOSE k \in 1..Len(TextOrder) : TextOrder[k] = v
    IN CHOOSE v \in modes : \A u \in modes : rank(v) <= rank(u)

\* df_model[col].mode()[0] if df_model[col].dropna().any() else "—"
Common(df, col) ==
    IF \E i \in 1..Len(df) : df[i][col] # NA /\ df[i][col] # ""
    THEN ModeFirst(df, col) ELSE DashText

\* model_summary(df_model); int() of a missing Year raises ValueError.
model_summary(df_model) ==
    LET prices == Present(df_model, "Price")
        years  == Present(df_model, "Year")
    IN IF years = <<>> THEN [raised |-> TRUE]
       ELSE [raised   |-> FALSE,
             Count    |-> Len(df_model),
             MinPrice |-> FmtMin(prices),
             MaxPrice |-> FmtMax(prices),
             AveragePrice   |-> FmtMean(prices),
             MedianPrice    |-> FmtMedian(df_model, "Price"),
             AverageMileage |-> FmtMean(Present(df_model, "Mileage")),
             YearRange      |-> <<FmtMin(years), FmtMax(years)>>,
             CommonFuel       |-> Common(df_model, "Fuel"),
             CommonDrivetrain |-> Common(df_model, "Drivetrain")]

\* sorted(df[df["Make"] == make]["Model"].dropna().unique()), or ["(none)"]
ModelChoices(df, make) ==
    LET models == {df[i].Model : i \in {k \in 1..Len(df) : df[k].Make = make}} \ {NA}
    IN IF models = {} THEN {"(none)"} ELSE models

\* df[(df["Make"] == make) & (df["Model"] == model)]
CarsOf(df, make, model) ==
    SelectSeq(df, LAMBDA r : r.Make # NA /\ r.Make = make /\ r.Model # NA /\ r.Model = model)

\* The Compare view of a run that stopped before the summaries.
Stopped(status) == [opened |-> TRUE, impl |-> "compare", status |-> status, pdf |-> FALSE]

\* One run of pages/4_Compare with the four select boxes set.
ComparePage ==
    /\ pc = "compare"
    /\ LET df == compare_load_df(store)
       IN IF df = <<>>
          THEN /\ view' = Stopped("no rows")
               /\ msgs' = <<Msg(0, "Database contains no data in Store table.")>>
          ELSE IF Makes(df) = {}
          THEN /\ view' = Stopped("no makes")
               /\ msgs' = <<Msg(0, "No makes found in database.")>>
          ELSE \E make_a \in Makes(df), make_b \in Makes(df) :
               \E model_a \in ModelChoices(df, make_a), model_b \in ModelChoices(df, make_b) :
                  LET car_a == CarsOf(df, make_a, model_a)
                      car_b == CarsOf(df, make_b, model_b)
                      sum_a == model_summary(car_a)
                      sum_b == model_summary(car_b)
                      sel   == [make_a |-> make_a, model_a |-> model_a,
                                make_b |-> make_b, model_b |-> model_b,
                                car_a |-> car_a, car_b |-> car_b]
                  IN IF car_a = <<>> \/ car_b = <<>>
                     THEN /\ view' = Stopped("no data") @@ sel
                          /\ msgs' = <<Msg(0, "No cars found for the selected models.")>>
                     ELSE IF sum_a.raised \/ sum_b.raised
                     THEN /\ view' = Stopped("raised") @@ sel
                          /\ msgs' = <<Msg(0, "ValueError")>>
                     ELSE /\ view' = Stopped("summary") @@ sel
                                     @@ [sum_a |-> sum_a, sum_b |-> sum_b]
                          /\ msgs' = <<>>
    /\ last' = Done("compare", TRUE, "")
    /\ UNCHANGED <<csv, cache, store, stockCache, editCache, batch, errs, pc,
                   sale, unsoldCache>>

\* An export that also writes the compared records back to the table.
ExportPdfSaving ==
    /\ pc = "compare"
    /\ view.opened /\ view.status = "summary" /\ ~view.pdf
    /\ view' = [view EXCEPT !.pdf = TRUE]
    /\ store' = view.car_a \o view.car_b
    /\ msgs' = <<Msg(0, "PDF generated successfully!")>>
    /\ last' = Done("pdf", TRUE, "")
    /\ UNCHANGED <<csv, cache, stockCache, editCache, batch, errs, pc,
                   sale, unsoldCache>>

\* "Generate & Download PDF": make_pdf draws the two summaries into a
\* BytesIO buffer that the download button serves.
ExportPdf ==
    /\ pc = "compare"
    /\ view.opened /\ view.status = "summary" /\ ~view.pdf
    /\ view' = [view EXCEPT !.pdf = TRUE]
    /\ msgs' = <<Msg(0, "PDF generated successfully!")>>
    /\ last' = Done("pdf", TRUE, "")
    /\ UNCHANGED <<csv, cache, store, stockCache, editCache, batch, errs, pc,
                   sale, unsoldCache>>

\* The persisted data, and the page that is open with the frame it loaded.
InitRead ==
    /\ csv = save_csv(SmallFrame)
    /\ cache = <<>>
    /\ store \in CompareTables
    /\ stockCache = <<>>
    /\ editCache = <<>>
    /\ msgs = <<>>
    /\ last = Done("start", TRUE, "")
    /\ pc \in {"compare", "browse app", "browse db"}
    /\ batch = IF pc = "browse app" THEN load_csv(csv)
               ELSE IF pc = "browse db" THEN compare_load_df(store)
               ELSE <<>>
    /\ errs = <<>>
    /\ sale = RecordedSales
    /\ unsoldCache = <<>>
    /\ view = NoView

NextRead == ComparePage \/ ExportPdf \/ BrowseCsv \/ BrowseDb

SpecRead == InitRead /\ [][NextRead]_vars

----------------------------------------------------------------------------
(* app.py, page "Add New", with the optional text column Trim and the       *)
(* optional number Mileage of the form: rows of the file carry both.        *)

\* What the user types into the Trim and Mileage fields (Mileage starts at 0).
AddTrimInputs == {"", " LX "}
AddMileageInputs == {0, 500}
AddKeyInputs == {"", " B2 "}
AddVinInputs == {"", V17}

\* data.csv at start.
FullFile ==
    <<Row("A1", "Kia", "Rio", 2020, 1000, V17) @@ [Trim |-> "GT", Mileage |-> 100]>>

\* new_row: `trim or pd.NA`, `int(mileage) if mileage else pd.NA`.
NewRowFull(stockno, make, model, year, price, vin, trim, mileage) ==
    NewRow(stockno, make, model, year, price, vin)
        @@ [Trim    |-> IF trim # "" THEN trim ELSE NA,
            Mileage |-> IF mileage # 0 THEN mileage ELSE NaN]

\* save_csv with the Trim and Mileage columns.
save_csv_full(df) ==
    [i \in 1..Len(df) |->
        SaveRow(df[i]) @@ [Trim |-> WriteText(df[i].Trim),
                           Mileage |-> ToNumeric(df[i].Mileage)]]

\* load_csv with the Trim and Mileage columns.
load_csv_full(file) ==
    LET base == load_csv(file)
        trim == ReadTextCol([i \in 1..Len(file) |-> file[i].Trim])
    IN [i \in 1..Len(file) |->
           base[i] @@ [Trim |-> StripCell(trim[i]), Mileage |-> ToNumeric(file[i].Mileage)]]

\* load_csv(DATA_PATH) under @st.cache_data.
CachedLoadFull == IF cache = <<>> THEN load_csv_full(csv) ELSE cache[1]

\* "Save Car" with every field of the form.
AddCar ==
    /\ pc = "add"
    /\ \E sIn \in AddKeyInputs, mdIn \in AddModelInputs, vIn \in AddVinInputs,
          tIn \in AddTrimInputs, mileage \in AddMileageInputs,
          year \in AddYearInputs, price \in AddPriceInputs,
          make \in {""} \cup Makes(CachedLoadFull) :
        LET df      == CachedLoadFull
            stockno == Strip(sIn)
            model   == Strip(mdIn)
            vin     == Strip(vIn)
            trim    == Strip(tIn)
            errors  == AddErrors(df, stockno, make, model, year, price, vin)
            cur     == load_csv_full(csv)
            form    == [stockno |-> stockno, make |-> make, model |-> model,
                        year |-> year, price |-> price, vin |-> vin,
                        trim |-> trim, mileage |-> mileage]
        IN IF errors # <<>>
           THEN /\ csv' = csv
                /\ cache' = <<df>>
                /\ msgs' = errors
                /\ last' = [op |-> "add", ok |-> FALSE, key |-> stockno, form |-> form]
           ELSE /\ Len(csv) < MaxRows
                /\ csv' = save_csv_full(Append(cur,
                              NewRowFull(stockno, make, model, year, price, vin,
                                         trim, mileage)))
                /\ cache' = <<cur>>
                /\ msgs' = <<Msg(0, "Saved car")>>
                /\ last' = [op |-> "add", ok |-> TRUE, key |-> stockno, form |-> form]
    /\ UNCHANGED <<store, stockCache, editCache, batch, errs, pc, sale, unsoldCache, view>>

InitAdd ==
    /\ csv = FullFile
    /\ cache = <<>>
    /\ store = <<>>
    /\ stockCache = <<>>
    /\ editCache = <<>>
    /\ msgs = <<>>
    /\ last = Done("start", TRUE, "")
    /\ batch = <<>>
    /\ errs = <<>>
    /\ pc = "add"
    /\ sale = <<>>
    /\ unsoldCache = <<>>
    /\ view = NoView

NextAdd == AddCar

SpecAdd == InitAdd /\ [][NextAdd]_vars

----------------------------------------------------------------------------
(* Properties *)

\* The StockNo values of a stored collection, missing ones left out.
StoredKeys(rows) == {rows[i].StockNo : i \in 1..Len(rows)} \ {"", NA}

UniqueKeys(rows) ==
    \A i, j \in 1..Len(rows) :
        (i # j /\ rows[i].StockNo \notin {"", NA}) => rows[i].StockNo # rows[j].StockNo

\* The rules of the Validation Engine on one stored row.
RuleViolated(r) ==
    \/ r.StockNo \in {"", NA}
    \/ r.Make \in {"", NA}
    \/ r.Model \in {"", NA}
    \/ r.Year = NaN \/ r.Year < YearMin \/ r.Year > YearMax
    \/ r.Price = NaN \/ r.Price <= 0
    \/ (r.VIN \notin {"", NA} /\ Len(r.VIN) # VinLen)

\* C1: after any sequence of Add, Edit-save and import operations, no two
\* records of the persisted vehicle collection share the same StockNo.
C1_UniqueStockNo == UniqueKeys(csv) /\ UniqueKeys(store)

\* C2: an Add submission whose StockNo is the StockNo of a record already in
\* the store is rejected with the "already exists" message and writes nothing.
C2_DuplicateAddRejected ==
    [][(last'.op = "add" /\ last'.key \in StoredKeys(csv))
          => (/\ csv' = csv
              /\ \E k \in 1..Len(msgs') : msgs'[k].code = "StockNo already exists.")]_vars

\* C4: a batch with at least one rule violation submitted through Edit
\* "Save Changes" is rejected in full, so what a successful save has written
\* violates no rule.
C4_InvalidBatchRejected ==
    (last.op = "edit" /\ last.ok)
        => (UniqueKeys(csv) /\ \A i \in 1..Len(csv) : ~RuleViolated(csv[i]))

\* C9: after a successful Edit save the next load returns the previous
\* collection with the requested change applied and every other record
\* unchanged (the editor changed at most one row here).
C9_SaveThenLoad ==
    [][(last'.op = "edit" /\ last'.ok)
          => LET before == load_csv(csv)
                 after  == load_csv(csv')
             IN /\ Len(after) = Len(before)
                /\ \E i \in 1..Len(before) :
                      \A j \in 1..Len(before) : j # i => after[j] = before[j]]_vars

\* C3: after any sequence of Add, Edit-save and import operations every
\* persisted record has price > 0, year within [1900, 2100] and a VIN that is
\* missing or exactly 17 characters long.
C3_ValuesInRange ==
    \A rows \in {csv, store} : \A i \in 1..Len(rows) :
        /\ rows[i].Price > 0
        /\ rows[i].Year >= YearMin /\ rows[i].Year <= YearMax
        /\ (rows[i].VIN \in {"", NA} \/ Len(rows[i].VIN) = VinLen)

\* The messages validate_rows returned for row i.
RowCodes(i) == {errs[k].code : k \in {n \in 1..Len(errs) : errs[n].row = i}}
NumRowMsgs(i) == Cardinality({n \in 1..Len(errs) : errs[n].row = i})

\* A text cell that is blank or missing.
Absent(x) == x = NA \/ Strip(x) = ""

\* The per-row rules a row violates.
RulesViolated(r) ==
    {rule \in {"StockNo", "Make", "Model", "Year", "Price", "VIN"} :
        CASE rule = "StockNo" -> Absent(r.StockNo)
          [] rule = "Make"    -> Absent(r.Make)
          [] rule = "Model"   -> Absent(r.Model)
          [] rule = "Year"    -> r.Year \in {NaN, NotNum} \/ r.Year < YearMin \/ r.Year > YearMax
          [] rule = "Price"   -> r.Price \in {NaN, NotNum} \/ r.Price <= 0
          [] rule = "VIN"     -> ~Absent(r.VIN) /\ Len(Strip(r.VIN)) # VinLen}

RepeatedKeys(df) ==
    {df[i].StockNo : i \in {j \in 1..Len(df) :
        \E k \in 1..Len(df) : k # j /\ df[k].StockNo = df[j].StockNo}}

Validated == pc \in {"validated raw", "validated"}

\* C5: validate_rows returns one message for each rule violated by each row,
\* and an empty list exactly when no rule is violated.
C5_EveryViolationReported ==
    pc = "validated" =>
        /\ \A i \in 1..Len(batch) : NumRowMsgs(i) = Cardinality(RulesViolated(batch[i]))
        /\ (errs = <<>>) <=>
              (RepeatedKeys(batch) = {} /\ \A i \in 1..Len(batch) : RulesViolated(batch[i]) = {})

\* C6: on the Edit path (validate_rows after coerce_for_save) a row gets the
\* VIN message exactly when its VIN is set and not 17 characters long; a
\* missing VIN gets none.
C6_VinRule ==
    pc = "validated" =>
        \A i \in 1..Len(batch) :
            ("VIN should be 17 characters" \in RowCodes(i))
                <=> (batch[i].VIN # NA /\ Len(batch[i].VIN) # VinLen)

\* C7: on the Edit path every row whose StockNo, Make or Model is blank or
\* missing gets the corresponding "is required" message.
C7_RequiredText ==
    pc = "validated" =>
        \A i \in 1..Len(batch) :
            /\ batch[i].StockNo = NA => "StockNo is required" \in RowCodes(i)
            /\ batch[i].Make = NA => "Make is required" \in RowCodes(i)
            /\ batch[i].Model = NA => "Model is required" \in RowCodes(i)

C10_RoundTrip == pc = "loaded" => cache[1] = batch

\* C11: an Add submission that passes the form checks (required fields set,
\* VIN empty or 17 characters) with a StockNo that is not in the store reports
\* success, and the store is then the previous collection plus one record
\* keyed by the submitted StockNo.
C11_ValidAddCreates ==
    [][(/\ last'.op = "dbadd"
        /\ msgs' \in {<<Msg(0, "Saved")>>, <<Msg(0, "Error saving car")>>}
        /\ last'.key \notin TableKeys(store))
          => (/\ last'.ok
              /\ Len(store') = Len(store) + 1
              /\ SubSeq(store', 1, Len(store)) = store
              /\ store'[Len(store')].StockNo = last'.key)]_vars

\* C12: after any sequence of page runs and "Save Sale" submissions no StockNo
\* appears in more than one row of the sale table.
C12_OneSalePerVehicle ==
    \A i, j \in 1..Len(sale) : i # j => sale[i].StockNo # sale[j].StockNo

\* The row is one of the rows of the sequence.
InSeq(r, rows) == \E k \in 1..Len(rows) : rows[k] = r

\* The position of a row in a sequence of distinct rows.
PosIn(r, rows) == CHOOSE k \in 1..Len(rows) : rows[k] = r

\* C13: a record passes the free-text filter exactly when the trimmed query
\* is empty or its lower-cased form is a substring of the lower-cased value of
\* one of the searched fields; a missing field offers no text to match.
C13_TextMatch ==
    view.opened =>
        \A i \in 1..Len(batch) :
            InSeq(batch[i], view.afterText)
                <=> \/ Strip(view.w.q) = ""
                    \/ \E f \in MatchFields :
                          /\ batch[i][f] # NA
                          /\ Contains(Lower(batch[i][f]), Lower(Strip(view.w.q)))

\* C14: with an empty allow-list the allow-list filter returns its input
\* unchanged; with a non-empty one it returns exactly the records whose value
\* is in the list, in input order.
C14_AllowList ==
    view.opened =>
        view.afterMulti =
            IF view.w.f_make = {} THEN view.afterText
            ELSE SelectSeq(view.afterText, LAMBDA r : r.Make \in view.w.f_make)

\* C14 witness: a non-empty allow-list that keeps some records and removes
\* others.
C14_Witness ==
    /\ view.opened
    /\ view.w.f_make # {}
    /\ Len(view.afterMulti) > 1
    /\ Len(view.afterMulti) < Len(view.afterText)

\* C15: when Price is missing for every record the Price slider has the
\* default bounds and the Price range filter removes no record.
C15_InertRange ==
    (view.opened /\ \A i \in 1..Len(batch) : batch[i].Price = NaN)
        => (view.price = PriceDefault /\ view.afterPrice = view.afterMulti)

\* C16: the displayed page holds exactly the records at positions
\* (K-1)*P+1 .. K*P of the filtered and sorted sequence, as far as it goes,
\* and the number of pages is the least n >= 1 with n*P >= total.
C16_PageSlice ==
    view.opened =>
        LET P     == view.w.per_page
            K     == view.page_no
            inPage == {i \in 1..Len(view.sorted) : (K - 1) * P < i /\ i <= K * P}
        IN /\ Len(view.rows) = Cardinality(inPage)
           /\ \A j \in 1..Len(view.rows) : view.rows[j] = view.sorted[(K - 1) * P + j]
           /\ view.pages >= 1
           /\ view.pages * P >= view.total
           /\ (view.pages > 1 => (view.pages - 1) * P < view.total)

\* C16 witness: a last page after the first that is only partly filled.
C16_Witness ==
    /\ view.opened
    /\ view.page_no > 1
    /\ view.page_no = view.pages
    /\ Len(view.rows) > 0
    /\ Len(view.rows) < view.w.per_page

\* C17: the page number used for the slice is the stored page number clamped
\* to 1 .. pages.
C17_PageClamped ==
    view.opened =>
        view.page_no = (IF view.stored > view.pages THEN view.pages
                        ELSE IF view.stored < 1 THEN 1 ELSE view.stored)

\* C18: in both Browse pages two records with the same value of the sort
\* field are shown in their input order, ascending and descending.
C18_SortStable ==
    view.opened =>
        \A a, b \in 1..Len(view.sorted) :
            (a < b /\ view.sorted[a][view.w.sort_by] = view.sorted[b][view.w.sort_by])
                => PosIn(view.sorted[a], view.filtered) < PosIn(view.sorted[b], view.filtered)

\* C19: the filter pipeline applied to its own output with the same filter
\* specification returns that output.
C19_FilterIdempotent ==
    view.opened => FilterStages(view.filtered, view.w).filtered = view.filtered

\* C19 witness: a query, an allow-list and a narrowed range together keep
\* some records and remove others.
C19_Witness ==
    /\ view.opened
    /\ Strip(view.w.q) # ""
    /\ view.w.f_make # {}
    /\ view.w.f_price # view.price
    /\ Len(view.filtered) > 0
    /\ Len(view.filtered) < Len(batch)

C21_RequiredColumnsFirst ==
    (pc = "import" /\ last.op = "import") =>
        IF RequiredColumns \ last.cols # {}
        THEN /\ ~last.ok
             /\ store = last.before
             /\ msgs = <<Msg(0, "CSV is missing required columns")>>
        ELSE /\ last.ok
             /\ \A j \in 1..Len(store) :
                    DOMAIN store[j] = AllColumns \cup OptionalColumns
             /\ "Trim" \notin last.cols =>
                    \A i \in 1..Len(batch) :
                        /\ batch[i].Trim = NA
                        /\ \E j \in 1..Len(store) :
                               /\ store[j].StockNo = batch[i].StockNo
                               /\ store[j].Trim = NA

\* An upload without Trim and with the unknown column Notes has replaced a
\* stored record that had a Trim.
C21_Witness ==
    /\ pc = "import" /\ last.op = "import" /\ last.ok
    /\ "Trim" \notin last.cols
    /\ "Notes" \in last.cols
    /\ \E j \in 1..Len(last.before) :
           /\ last.before[j].Trim # NA
           /\ last.before[j].StockNo \in Keys(batch)

\* The rows of `before` an import of `df` executes no statement on.
Untouched(before, df) ==
    SelectSeq(before, LAMBDA r : r.StockNo = NA \/ r.StockNo \notin Keys(df))

\* C22: after a successful import every row of the file is a row of the Store
\* table, every stored record whose key is not in the file is still there
\* unchanged, and the returned number is the number of Store rows the import
\* inserted or updated.
C22_ImportUpsert ==
    (pc = "import" /\ last.op = "import" /\ last.ok) =>
        /\ \A i \in 1..Len(batch) : InSeq(batch[i], store)
        /\ \A j \in 1..Len(last.before) :
               last.before[j].StockNo \notin Keys(batch) => InSeq(last.before[j], store)
        /\ last.count = Len(store) - Len(Untouched(last.before, batch))

\* The k-th smallest of the values xs (k in 1..Len(xs)).
KthSmallest(xs, k) ==
    MinOf({x \in {xs[i] : i \in 1..Len(xs)} :
              Cardinality({i \in 1..Len(xs) : xs[i] <= x}) >= k})

\* The summary holds the number of records of the subset and the minimum,
\* maximum, mean and median of its prices.
Aggregates(car, sum) ==
    LET prices == Present(car, "Price")
        n      == Len(prices)
    IN /\ sum.Count = Len(car)
       /\ n > 0 =>
            /\ sum.MinPrice = MinOf({prices[i] : i \in 1..n})
            /\ sum.MaxPrice = MaxOf({prices[i] : i \in 1..n})
            /\ sum.AveragePrice * n = SumSeq(prices, 1)
            /\ 2 * sum.MedianPrice =
                   KthSmallest(prices, (n + 1) \div 2) + KthSmallest(prices, n \div 2 + 1)

\* The Compare page ran with two non-empty subsets selected.
Compared ==
    pc = "compare" /\ view.opened /\ view.status \in {"summary", "raised"}

\* C23: for every non-empty subset selected on the Compare page, model_summary
\* reports count = number of records and the min, max, mean and median of the
\* subset's prices.
C23_Aggregation ==
    Compared =>
        /\ view.status = "summary"
        /\ Aggregates(view.car_a, view.sum_a)
        /\ Aggregates(view.car_b, view.sum_b)

\* The most frequent value of the column that occurs first in record order.
FirstMode(car, col) ==
    LET vals     == {car[i][col] : i \in 1..Len(car)} \ {NA}
        count(v) == Cardinality({i \in 1..Len(car) : car[i][col] = v})
        modes    == {v \in vals : \A u \in vals : count(v) >= count(u)}
    IN car[MinOf({i \in 1..Len(car) : car[i][col] \in modes})][col]

HasValue(car, col) == \E i \in 1..Len(car) : car[i][col] # NA

\* C24: the reported most frequent fuel and drivetrain is, among the values
\* tied for the highest frequency, the one that occurs first in the subset's
\* record order.
C24_ModeFirstSeen ==
    (pc = "compare" /\ view.opened /\ view.status = "summary") =>
        /\ HasValue(view.car_a, "Fuel") =>
               view.sum_a.CommonFuel = FirstMode(view.car_a, "Fuel")
        /\ HasValue(view.car_b, "Fuel") =>
               view.sum_b.CommonFuel = FirstMode(view.car_b, "Fuel")
        /\ HasValue(view.car_a, "Drivetrain") =>
               view.sum_a.CommonDrivetrain = FirstMode(view.car_a, "Drivetrain")
        /\ HasValue(view.car_b, "Drivetrain") =>
               view.sum_b.CommonDrivetrain = FirstMode(view.car_b, "Drivetrain")

\* C25: a selection that matches no record ends in the "no data" state, and
\* a selection of two non-empty subsets ends with both summaries shown.
C25_NoDataOrSummary ==
    (pc = "compare" /\ view.opened /\ view.status \in {"no data", "summary", "raised"}) =>
        IF view.car_a = <<>> \/ view.car_b = <<>>
        THEN view.status = "no data"
        ELSE view.status = "summary"

\* C26: no run of a Browse page or of the Compare page, and no PDF export,
\* changes the Store table, the sale table or the flat file.
C26_ReadOnly ==
    [][(pc \in {"compare", "browse app", "browse db"})
          => (store' = store /\ sale' = sale /\ csv' = csv)]_vars

\* A PDF was exported from summaries of stored records while a sale is on
\* record.
C26_Witness ==
    /\ pc = "compare" /\ view.opened /\ view.status = "summary" /\ view.pdf
    /\ store # <<>> /\ sale # <<>> /\ csv # <<>>

\* C29: a Browse run with every widget at its default (empty query, empty
\* allow-list, sliders at the bounds numeric_bounds computed) shows every
\* record of the loaded collection, and the total is the collection size.
C29_DefaultShowsAll ==
    (pc \in {"browse app", "browse db"} /\ view.opened /\ view.w = DefaultWidgets(batch))
        => (view.filtered = batch /\ view.total = Len(batch))

\* C27: a successful Save Changes of the flat-file Edit page with a search
\* text leaves every record of the file that does not match the text with
\* the field values it had in the file before the save.
C27_FilteredEditFrame ==
    [][(pc = "app" /\ last'.op = "edit" /\ last'.ok /\ last'.key # "")
          => \A i \in 1..Len(csv) :
                 ~text_match(load_csv(csv)[i], last'.key)
                     => (i <= Len(csv') /\ csv'[i] = csv[i])]_vars

\* C30: after a successful Save Car the last record of the file holds the
\* submitted values: each text field as typed (a blank one as the empty cell
\* of a missing value) and each number, Mileage 0 included, as entered.
C30_AddPersistsValues ==
    (pc = "add" /\ last.op = "add" /\ last.ok) =>
        LET r == csv[Len(csv)]
            f == last.form
        IN /\ r.StockNo = f.stockno
           /\ r.Make = f.make
           /\ r.Model = f.model
           /\ r.VIN = f.vin
           /\ r.Trim = f.trim
           /\ r.Year = f.year
           /\ r.Price = f.price
           /\ r.Mileage = f.mileage

\* C28: when a statement of upsert_rows raises, the error message is shown
\* and the Store table is exactly what it was before the call: no DELETE and
\* no upsert of the batch is kept.
C28_AllOrNothing ==
    [][(pc = "upsert" /\ last'.op = "upsert_rows" /\ ~last'.ok)
          => (store' = store /\ msgs' = <<Msg(0, "Error saving changes")>>)]_vars

\* A call failed after its DELETE had run on a stored record, and the record
\* is in the table.
C28_Witness ==
    /\ pc = "upsert" /\ last.op = "upsert_rows" /\ ~last.ok
    /\ last.key = ""
    /\ last.deletes \cap TableKeys(store) # {}
    /\ msgs = <<Msg(0, "Error saving changes")>>

====
